---- MODULE Spec2Model ----
(***************************************************************************)
(* A model of cprior's conjugate posterior models and pairwise comparator: *)
(*   - cprior/binomial.py: BinomialModel (constructor, update)             *)
(*   - cprior/cdist/normal_inverse_gamma.py: NormalInverseGamma.rvs,       *)
(*     NormalInverseGammaModel, NormalInverseGammaABTest                   *)
(*                                                                         *)
(* Hyperparameters, observations and random variates are integers.  The   *)
(* pseudo-random source is a counter generator: its state is a number in   *)
(* 0..RngMod-1, a draw returns the state and steps it.  scipy's samplers   *)
(* are deterministic transformations of the generator's raw draws.         *)
(***************************************************************************)
EXTENDS Integers, Sequences, FiniteSets, TLC

\* ---------------------------------------------------------------- bounds
MaxSim == 2        \* simulation counts are 1..MaxSim
MaxSeed == 1       \* integer seeds are 0..MaxSeed
MaxLift == 1       \* lifts are 0..MaxLift
RngMod == 5        \* number of states of the pseudo-random generator
MaxM == 1          \* binomial trial counts are 1..MaxM
MaxPrior == 1      \* beta prior parameters are 0..MaxPrior (0 is invalid)
MaxHist == 3       \* at most MaxHist observations are fed to one model
MaxShape == 3      \* a distribution's shape is 0..MaxShape (0 is invalid)
MaxDistParam == 2  \* its variance_scale and scale are 0..MaxDistParam (0 is invalid)

\* random_state=None (normal_inverse_gamma.py line 446)
NoSeed == -1

Methods == {"exact", "MC"}
Variants == {"A", "B", "all"}
Lifts == 0..MaxLift
RandomStates == {NoSeed} \cup (0..MaxSeed)

\* The prior hyperparameters <<loc, variance_scale, shape, scale>> the
\* constructor is called with: two valid ones, and one that fails each check.
NIGPriors ==
    { <<0, 1, 1, 1>>, <<1, 1, 2, 2>>,
      <<0, 0, 1, 1>>, <<0, 1, 0, 1>>, <<0, 1, 1, -1>> }

VARIABLES
    modelA,   \* the NormalInverseGammaModel passed as modelA
    modelB,   \* the NormalInverseGammaModel passed as modelB
    abtest,   \* the NormalInverseGammaABTest: simulations, random_state
    gstate,   \* state of numpy's global generator (used when random_state is None)
    binom,    \* a BinomialModel
    start,    \* (alpha_posterior, beta_posterior) of binom before its first update
    hist,     \* concatenation of the batches passed to binom.update so far
    last      \* the last call: operation, arguments, outcome

vars == <<modelA, modelB, abtest, gstate, binom, start, hist, last>>

\* ------------------------------------------------------------ call records
NoModel == [constructed |-> FALSE]
NoTest == [constructed |-> FALSE]

\* The outcome of a call.  kind is "value" (returned val), "none" (returned
\* None), "error" (raised err).  nrvs counts the rvs calls the call made, n is
\* len(data) of an update, pre the posterior (alpha, beta) before an update,
\* args the hyperparameters a constructor was called with (variant names the
\* variable the new model is bound to).
Call(op, method, variant, lift, kind, err, val, nrvs) ==
    [op |-> op, method |-> method, variant |-> variant, lift |-> lift,
     kind |-> kind, err |-> err, val |-> val, nrvs |-> nrvs,
     n |-> 0, pre |-> <<0, 0>>, args |-> <<>>]

NoCall == Call("none", "", "", 0, "none", "", <<>>, 0)

\* ------------------------------------------------- NormalInverseGammaModel
\* __init__ (lines 275-297): the priors are stored, the posteriors start equal
\* to the priors, then the three positivity checks raise ValueError.
NIGFields(loc, variance_scale, shape, scale) ==
    [constructed |-> TRUE,
     loc |-> loc, variance_scale |-> variance_scale,
     shape |-> shape, scale |-> scale,
     loc_posterior |-> loc,
     variance_scale_posterior |-> variance_scale,
     shape_posterior |-> shape,
     scale_posterior |-> scale]

NIGValid(variance_scale, shape, scale) ==
    ~(variance_scale <= 0) /\ ~(shape <= 0) /\ ~(scale <= 0)

\* The constructor call: the new object, or the old binding when it raises.
NIGConstruct(old, loc, variance_scale, shape, scale) ==
    IF NIGValid(variance_scale, shape, scale)
    THEN NIGFields(loc, variance_scale, shape, scale)
    ELSE old

NIGInitCall(slot, p) ==
    [Call("NormalInverseGammaModel", "", slot, 0,
          IF NIGValid(p[2], p[3], p[4]) THEN "value" ELSE "error",
          IF NIGValid(p[2], p[3], p[4]) THEN "" ELSE "ValueError", <<>>, 0)
     EXCEPT !.args = p]

\* The two models are built before the test that is handed them; a call that
\* raises binds nothing.
NIGModelInit ==
    /\ ~abtest.constructed
    /\ \E slot \in {"A", "B"}, p \in NIGPriors :
         /\ modelA' = IF slot = "A"
                      THEN NIGConstruct(modelA, p[1], p[2], p[3], p[4])
                      ELSE modelA
         /\ modelB' = IF slot = "B"
                      THEN NIGConstruct(modelB, p[1], p[2], p[3], p[4])
                      ELSE modelB
         /\ last' = NIGInitCall(slot, p)
    /\ UNCHANGED <<abtest, gstate, binom, start, hist>>

\* ------------------------------------------------ the pseudo-random source
\* A generator choice that ignores the seed and always draws from the global
\* generator.
GeneratorGlobal(random_state, g) == g

\* scipy's check_random_state, as used by rv_frozen.rvs (called at lines
\* 230-234): None selects numpy's global generator, an integer seeds a new
\* generator, so every seeded rvs call starts the same stream again.

Generator(random_state, g) ==
    IF random_state = NoSeed THEN g ELSE random_state % RngMod

\* The raw draws of `size` variates from generator state s.
Raws(s, size) == [i \in 1..size |-> (s + i - 1) % RngMod]

\* The global generator after `size` variates were drawn with random_state.
After(random_state, g, size) ==
    IF random_state = NoSeed THEN (g + size) % RngMod ELSE g

ISqrt(n) == CHOOSE k \in 0..n : k * k <= n /\ (k + 1) * (k + 1) > n

\* A standard inverse-gamma variate of the given shape from one raw draw:
\* positive, and smaller for a larger shape.
StdInvGamma(shape, r) == 1 + (r \div shape)

\* A standard normal variate from one raw draw: centred on zero.
StdNormal(r) == r - (RngMod \div 2)

\* ------------------------------------------------------ NormalInverseGamma
NormalInverseGamma(loc, variance_scale, shape, scale) ==
    [loc |-> loc, variance_scale |-> variance_scale, shape |-> shape,
     scale |-> scale]

\* rvs (lines 213-236): sig2 from invgamma(a=shape, scale=scale) first, then x
\* from norm(loc, sqrt(sig2 / variance_scale)), both with the same random_state;
\* returns the pairs (x, sig2) and leaves the global generator at g.
Rvs(dist, size, random_state, g) ==
    LET r1 == Raws(Generator(random_state, g), size)
        sig2_rv == [i \in 1..size |-> dist.scale * StdInvGamma(dist.shape, r1[i])]
        g1 == After(random_state, g, size)
        r2 == Raws(Generator(random_state, g1), size)
        x_rv == [i \in 1..size |->
                   dist.loc + ISqrt(sig2_rv[i] \div dist.variance_scale)
                              * StdNormal(r2[i])]
    IN  [data |-> [i \in 1..size |-> <<x_rv[i], sig2_rv[i]>>],
         g |-> After(random_state, g1, size)]

\* NormalInverseGammaModel.rvs (lines 405-425): the posterior's variates.
ModelRvs(model, size, random_state, g) ==
    Rvs(NormalInverseGamma(model.loc_posterior, model.variance_scale_posterior,
                           model.shape_posterior, model.scale_posterior),
        size, random_state, g)

\* -------------------------------------------- NormalInverseGamma moments
\* The parameters <<loc, variance_scale, shape, scale>> a distribution is
\* built with.
DistParams ==
    (0..1) \X (0..MaxDistParam) \X (0..MaxShape) \X (0..MaxDistParam)

\* __init__ (lines 47-55): the three positivity checks.
DistValid(dist) ==
    ~(dist.variance_scale <= 0) /\ ~(dist.shape <= 0) /\ ~(dist.scale <= 0)

\* A float: np.nan, or the exact fraction num / den.
NaN == [nan |-> TRUE]

Num(num, den) == [nan |-> FALSE, num |-> num, den |-> den]

\* np.sqrt of a float: nan for nan and for a negative number, else the root
\* (rounded down to a multiple of 1 / den).
Sqrt(v) ==
    IF v.nan THEN NaN
    ELSE IF v.num * v.den < 0 THEN NaN
    ELSE Num(ISqrt(v.num * v.den), v.den)

\* mean (lines 57-73).
DistMean(dist) ==
    LET x_mean == Num(dist.loc, 1)
        sig2_mean == IF dist.shape > 1
                     THEN Num(dist.scale, dist.shape - 1)
                     ELSE NaN
    IN  <<x_mean, sig2_mean>>

\* var with the two thresholds exchanged.
DistVarSwapped(dist) ==
    LET x_var == IF dist.shape > 2
                 THEN Num(dist.scale, (dist.shape - 1) * dist.variance_scale)
                 ELSE NaN
        sig2_var == IF dist.shape > 1 /\ dist.shape # 2
                    THEN Num(dist.scale * dist.scale,
                             (dist.shape - 1) * (dist.shape - 1)
                                 * (dist.shape - 2))
                    ELSE NaN
    IN  <<x_var, sig2_var>>

\* var (lines 89-109).
DistVar(dist) ==
    LET x_var == IF dist.shape > 1
                 THEN Num(dist.scale, (dist.shape - 1) * dist.variance_scale)
                 ELSE NaN
        sig2_var == IF dist.shape > 2
                    THEN Num(dist.scale * dist.scale,
                             (dist.shape - 1) * (dist.shape - 1)
                                 * (dist.shape - 2))
                    ELSE NaN
    IN  <<x_var, sig2_var>>

\* std (lines 111-120): tuple(np.sqrt(self.var())).
DistStd(dist) == <<Sqrt(DistVar(dist)[1]), Sqrt(DistVar(dist)[2])>>

\* NormalInverseGamma(*p).<op>(): the constructor raises ValueError for
\* invalid parameters, else the method returns val.
MomentCall(op, p, val) ==
    LET valid == DistValid(NormalInverseGamma(p[1], p[2], p[3], p[4]))
    IN  [Call(op, "", "", 0,
              IF valid THEN "value" ELSE "error",
              IF valid THEN "" ELSE "ValueError",
              IF valid THEN val ELSE <<>>, 0)
         EXCEPT !.args = p]

mean ==
    /\ \E p \in DistParams :
         last' = MomentCall("mean", p,
                            DistMean(NormalInverseGamma(p[1], p[2], p[3], p[4])))
    /\ UNCHANGED <<modelA, modelB, abtest, gstate, binom, start, hist>>

var ==
    /\ \E p \in DistParams :
         last' = MomentCall("var", p,
                            DistVar(NormalInverseGamma(p[1], p[2], p[3], p[4])))
    /\ UNCHANGED <<modelA, modelB, abtest, gstate, binom, start, hist>>

std ==
    /\ \E p \in DistParams :
         last' = MomentCall("std", p,
                            DistStd(NormalInverseGamma(p[1], p[2], p[3], p[4])))
    /\ UNCHANGED <<modelA, modelB, abtest, gstate, binom, start, hist>>

\* ------------------------------------------------ NormalInverseGammaABTest
\* __init__ (lines 446-447) hands modelA, modelB, simulations and random_state
\* to BayesABTest, which keeps them.
ABTestInit ==
    /\ modelA.constructed /\ modelB.constructed
    /\ \E simulations \in 1..MaxSim, random_state \in RandomStates :
         abtest' = [constructed |-> TRUE, simulations |-> simulations,
                    random_state |-> random_state]
    /\ last' = Call("NormalInverseGammaABTest", "", "", 0, "value", "", <<>>, 0)
    /\ UNCHANGED <<modelA, modelB, gstate, binom, start, hist>>

\* check_ab_method (cprior/cdist/utils.py): a positive lift with a method
\* other than Monte Carlo is refused.
check_ab_method(method, variant, lift) ==
    IF lift > 0 /\ method = "exact" THEN "UnsupportedConfiguration" ELSE "ok"

RECURSIVE SeqSum(_)
SeqSum(s) == IF s = <<>> THEN 0 ELSE Head(s) + SeqSum(Tail(s))

\* numpy's mean of an array, kept as the exact fraction <<sum, size>>.
Mean(s) == <<SeqSum(s), Len(s)>>

\* The comparison with the lift taken off the other side's draw.
BeatsMinusLift(a, b, lift) ==
    Mean([i \in 1..Len(a) |-> IF a[i] > b[i] - lift THEN 1 ELSE 0])

\* (a > b + lift).mean() over paired columns.
Beats(a, b, lift) ==
    Mean([i \in 1..Len(a) |-> IF a[i] > b[i] + lift THEN 1 ELSE 0])

Max(a, b) == IF a >= b THEN a ELSE b

\* np.maximum(b - a - lift, 0).mean() over paired columns.
Loss(a, b, lift) ==
    Mean([i \in 1..Len(a) |-> Max(b[i] - a[i] - lift, 0)])

Column(data, j) == [i \in 1..Len(data) |-> data[i][j]]

\* The Monte Carlo branch of probability (lines 513-527).
ProbabilityMC(data_A, data_B, variant, lift) ==
    LET xA == Column(data_A, 1)
        sig2A == Column(data_A, 2)
        xB == Column(data_B, 1)
        sig2B == Column(data_B, 2)
    IN  IF variant = "A"
        THEN <<Beats(xA, xB, lift), Beats(sig2A, sig2B, lift)>>
        ELSE IF variant = "B"
        THEN <<Beats(xB, xA, lift), Beats(sig2B, sig2A, lift)>>
        ELSE <<Beats(xA, xB, lift), Beats(sig2A, sig2B, lift),
               Beats(xB, xA, lift), Beats(sig2B, sig2A, lift)>>

\* The Monte Carlo branch of expected_loss (lines 573-589).
ExpectedLossMC(data_A, data_B, variant, lift) ==
    LET xA == Column(data_A, 1)
        sig2A == Column(data_A, 2)
        xB == Column(data_B, 1)
        sig2B == Column(data_B, 2)
    IN  IF variant = "A"
        THEN <<Loss(xA, xB, lift), Loss(sig2A, sig2B, lift)>>
        ELSE IF variant = "B"
        THEN <<Loss(xB, xA, lift), Loss(sig2B, sig2A, lift)>>
        ELSE <<Loss(xA, xB, lift), Loss(sig2A, sig2B, lift),
               Loss(xB, xA, lift), Loss(sig2B, sig2A, lift)>>

\* probability with the validation placed after the sampling.
ProbabilityCallLateCheck(mA, mB, test, method, variant, lift, g) ==
    LET checked == check_ab_method(method, variant, lift)
        rA == ModelRvs(mA, test.simulations, test.random_state, g)
        rB == ModelRvs(mB, test.simulations, test.random_state, rA.g)
    IN  IF checked # "ok"
        THEN [call |-> Call("probability", method, variant, lift,
                            "error", checked, <<>>, 2),
              g |-> rB.g]
        ELSE IF method = "exact"
        THEN [call |-> Call("probability", method, variant, lift,
                            "error", "NameError", <<>>, 2),
              g |-> rB.g]
        ELSE [call |-> Call("probability", method, variant, lift, "value", "",
                            ProbabilityMC(rA.data, rB.data, variant, lift), 2),
              g |-> rB.g]

\* probability (lines 449-527) called with the global generator at g: the
\* call's outcome and the global generator afterwards.  The exact branch reads
\* the eight posterior parameters and then evaluates np.hypot(sigA, sigB) in
\* each of its three variants; sigA and sigB are bound nowhere.
ProbabilityCall(mA, mB, test, method, variant, lift, g) ==
    LET checked == check_ab_method(method, variant, lift)
        rA == ModelRvs(mA, test.simulations, test.random_state, g)
        rB == ModelRvs(mB, test.simulations, test.random_state, rA.g)
    IN  IF checked # "ok"
        THEN [call |-> Call("probability", method, variant, lift,
                            "error", checked, <<>>, 0),
              g |-> g]
        ELSE IF method = "exact"
        THEN [call |-> Call("probability", method, variant, lift,
                            "error", "NameError", <<>>, 0),
              g |-> g]
        ELSE [call |-> Call("probability", method, variant, lift, "value", "",
                            ProbabilityMC(rA.data, rB.data, variant, lift), 2),
              g |-> rB.g]

\* expected_loss (lines 529-589): the exact branch reads the eight posterior
\* parameters, passes, and falls off the end of the function.
ExpectedLossCall(mA, mB, test, method, variant, lift, g) ==
    LET checked == check_ab_method(method, variant, lift)
        rA == ModelRvs(mA, test.simulations, test.random_state, g)
        rB == ModelRvs(mB, test.simulations, test.random_state, rA.g)
    IN  IF checked # "ok"
        THEN [call |-> Call("expected_loss", method, variant, lift,
                            "error", checked, <<>>, 0),
              g |-> g]
        ELSE IF method = "exact"
        THEN [call |-> Call("expected_loss", method, variant, lift,
                            "none", "", <<>>, 0),
              g |-> g]
        ELSE [call |-> Call("expected_loss", method, variant, lift, "value", "",
                            ExpectedLossMC(rA.data, rB.data, variant, lift), 2),
              g |-> rB.g]

\* probability applying the lift to modelB's posterior location in place.
probability_shifting ==
    /\ abtest.constructed
    /\ \E method \in Methods, variant \in Variants, lift \in Lifts :
         LET r == ProbabilityCall(modelA, modelB, abtest, method, variant,
                                  lift, gstate)
         IN  /\ last' = r.call
             /\ gstate' = r.g
             /\ modelB' = [modelB EXCEPT !.loc_posterior = @ + lift]
    /\ UNCHANGED <<modelA, abtest, binom, start, hist>>

probability ==
    /\ abtest.constructed
    /\ \E method \in Methods, variant \in Variants, lift \in Lifts :
         LET r == ProbabilityCall(modelA, modelB, abtest, method, variant,
                                  lift, gstate)
         IN  /\ last' = r.call
             /\ gstate' = r.g
    /\ UNCHANGED <<modelA, modelB, abtest, binom, start, hist>>

expected_loss ==
    /\ abtest.constructed
    /\ \E method \in Methods, variant \in Variants, lift \in Lifts :
         LET r == ExpectedLossCall(modelA, modelB, abtest, method, variant,
                                   lift, gstate)
         IN  /\ last' = r.call
             /\ gstate' = r.g
    /\ UNCHANGED <<modelA, modelB, abtest, binom, start, hist>>

\* expected_loss_relative (lines 591-592): the body is pass.
expected_loss_relative ==
    /\ abtest.constructed
    /\ \E method \in Methods, variant \in Variants :
         last' = Call("expected_loss_relative", method, variant, 0,
                      "none", "", <<>>, 0)
    /\ UNCHANGED <<modelA, modelB, abtest, gstate, binom, start, hist>>

\* expected_loss_ci (lines 594-595): the body is pass, whatever method, variant
\* and interval_length are.
expected_loss_ci ==
    /\ abtest.constructed
    /\ \E method \in Methods, variant \in Variants :
         last' = Call("expected_loss_ci", method, variant, 0,
                      "none", "", <<>>, 0)
    /\ UNCHANGED <<modelA, modelB, abtest, gstate, binom, start, hist>>

\* expected_loss_relative_ci (lines 597-599): the body is pass.
expected_loss_relative_ci ==
    /\ abtest.constructed
    /\ \E method \in Methods, variant \in Variants :
         last' = Call("expected_loss_relative_ci", method, variant, 0,
                      "none", "", <<>>, 0)
    /\ UNCHANGED <<modelA, modelB, abtest, gstate, binom, start, hist>>

\* ----------------------------------------------------------- BinomialModel
\* The observations a batch may hold: the support 0..m and one value on each
\* side of it.
DataValues == (-1)..(MaxM + 1)

BatchLengths == {0, 1, 2}

Batches == UNION {[1..n -> DataValues] : n \in BatchLengths}

\* BetaModel.__init__(alpha, beta) (cprior/cdist/beta.py) followed by
\* self.m = m: the object BinomialModel(m, alpha, beta) is to be.
BinomialFields(m, alpha, beta) ==
    [constructed |-> TRUE, m |-> m, alpha |-> alpha, beta |-> beta,
     alpha_posterior |-> alpha, beta_posterior |-> beta]

\* __init__ (lines 43-46): the arguments of super().__init__(alpha, neta) are
\* evaluated first, and the name neta is bound nowhere: NameError is raised
\* before BetaModel.__init__ runs and before self.m is set, whatever m, alpha
\* and beta are, and the caller gets no object.
BinomialModelInit ==
    /\ \E m \in 1..MaxM, alpha \in 0..MaxPrior, beta \in 0..MaxPrior :
         last' = [Call("BinomialModel", "", "", 0, "error", "NameError", <<>>, 0)
                  EXCEPT !.args = <<m, alpha, beta>>]
    /\ UNCHANGED <<modelA, modelB, abtest, gstate, binom, start, hist>>

\* update as a re-fit: the posterior rebuilt from the prior and this batch alone.
UpdateRefit(b, data) ==
    [b EXCEPT !.alpha_posterior = b.alpha + SeqSum(data),
              !.beta_posterior = b.beta + b.m * Len(data) - SeqSum(data)]

\* update (lines 57-60): n = len(data), n_success = np.sum(data), then the two
\* in-place additions.
UpdatePosterior(b, data) ==
    LET n == Len(data)
        n_success == SeqSum(data)
    IN  [b EXCEPT !.alpha_posterior = @ + n_success,
                  !.beta_posterior = @ + b.m * n - n_success]

\* update returns None; nothing in it raises for a sequence of numbers.
update ==
    /\ binom.constructed
    /\ \E data \in Batches :
         /\ Len(hist) + Len(data) <= MaxHist
         /\ binom' = UpdatePosterior(binom, data)
         /\ hist' = hist \o data
         /\ last' = [Call("update", "", "", 0, "none", "", <<>>, 0)
                     EXCEPT !.n = Len(data),
                            !.pre = <<binom.alpha_posterior, binom.beta_posterior>>]
    /\ UNCHANGED <<modelA, modelB, abtest, gstate, start>>

Init ==
    /\ modelA = NoModel
    /\ modelB = NoModel
    /\ abtest = NoTest
    /\ gstate \in 0..(RngMod - 1)
    /\ binom = NoModel
    /\ start = <<0, 0>>
    /\ hist = <<>>
    /\ last = NoCall

Next ==
    \/ NIGModelInit
    \/ ABTestInit
    \/ probability
    \/ expected_loss
    \/ expected_loss_relative
    \/ expected_loss_ci
    \/ expected_loss_relative_ci
    \/ BinomialModelInit

Spec == Init /\ [][Next]_vars

\* BinomialModel.update taken by itself: since the constructor returns no
\* object, update is run from every state the constructor is documented to
\* produce (the posterior equal to a valid prior) and from every state further
\* updates lead to.
InitUpdate ==
    /\ modelA = NoModel
    /\ modelB = NoModel
    /\ abtest = NoTest
    /\ gstate = 0
    /\ \E m \in 1..MaxM, alpha \in 1..MaxPrior, beta \in 1..MaxPrior :
         /\ binom = BinomialFields(m, alpha, beta)
         /\ start = <<alpha, beta>>
    /\ hist = <<>>
    /\ last = NoCall

NextUpdate == update

SpecUpdate == InitUpdate /\ [][NextUpdate]_vars

\* The moments of a NormalInverseGamma taken by themselves: each call builds a
\* distribution from the drawn parameters and asks for one moment.
InitMoments ==
    /\ modelA = NoModel
    /\ modelB = NoModel
    /\ abtest = NoTest
    /\ gstate = 0
    /\ binom = NoModel
    /\ start = <<0, 0>>
    /\ hist = <<>>
    /\ last = NoCall

NextMoments ==
    \/ mean
    \/ var
    \/ std

SpecMoments == InitMoments /\ [][NextMoments]_vars

\* ------------------------------------------------------------------ claims
\* The batch the last update was called with: the last n observations of hist.
LastBatch == SubSeq(hist, Len(hist) - last.n + 1, Len(hist))

\* A batch update is documented to refuse: empty, or holding a value outside
\* the binomial support 0..m.
BadBatch(data, m) ==
    data = <<>> \/ \E i \in 1..Len(data) : data[i] < 0 \/ data[i] > m

PosteriorAB(b) == <<b.alpha_posterior, b.beta_posterior>>

\* C1: additivity of BinomialModel.update.  After any sequence of update calls
\* the posterior (alpha_posterior, beta_posterior) equals the posterior a
\* single update with the concatenation of all the batches produces from the
\* starting state, however the observations were split into batches.
C1_Additivity ==
    binom.constructed =>
        PosteriorAB(binom) =
            PosteriorAB(UpdatePosterior(
                [binom EXCEPT !.alpha_posterior = start[1],
                              !.beta_posterior = start[2]], hist))

\* C1 witness: at least two non-empty batches were applied, with successes and
\* failures among the observations.
C1_Witness ==
    /\ binom.constructed
    /\ last.op = "update"
    /\ last.n >= 1
    /\ Len(hist) > last.n
    /\ PosteriorAB(binom) # last.pre
    /\ last.pre # start
    /\ binom.alpha_posterior > start[1]
    /\ binom.beta_posterior > start[2]

NIGPositive(m) ==
    m.constructed =>
        /\ m.variance_scale_posterior > 0
        /\ m.shape_posterior > 0
        /\ m.scale_posterior > 0

ComparatorOps ==
    {"probability", "expected_loss", "expected_loss_relative",
     "expected_loss_ci", "expected_loss_relative_ci"}

\* C2: probability and expected_loss called with method = exact and lift > 0
\* fail with the unsupported-configuration error, for every variant, and no
\* rvs call was made before the failure.
C2_ExactLiftRejected ==
    (last.op \in {"probability", "expected_loss"}
        /\ last.method = "exact" /\ last.lift > 0) =>
        (last.kind = "error" /\ last.err = "UnsupportedConfiguration"
            /\ last.nrvs = 0)

\* C2 witness: an exact call with a positive lift was made and refused.
C2_Witness ==
    /\ last.op = "probability"
    /\ last.method = "exact"
    /\ last.lift > 0
    /\ last.variant = "all"
    /\ last.kind = "error"

\* C3: expected_loss with method = exact and lift = 0 signals an explicit
\* unsupported/not-implemented error for every variant; it never returns
\* normally without a result.
C3_ExactLossSignals ==
    (last.op = "expected_loss" /\ last.method = "exact" /\ last.lift = 0) =>
        last.kind = "error"

\* C6: probability with method = exact and lift = 0 on two validly constructed
\* models completes and returns a (location probability, dispersion
\* probability) pair for each requested variant.
C6_ExactProbabilityReturns ==
    (last.op = "probability" /\ last.method = "exact" /\ last.lift = 0) =>
        /\ last.kind = "value"
        /\ Len(last.val) = IF last.variant = "all" THEN 4 ELSE 2

PriorsKept(m, p) ==
    /\ m.constructed
    /\ <<m.loc, m.variance_scale, m.shape, m.scale>> = p
    /\ <<m.loc_posterior, m.variance_scale_posterior, m.shape_posterior,
         m.scale_posterior>> = p

\* C7: constructing a model with valid prior hyperparameters succeeds and the
\* new model's posterior hyperparameters equal the priors passed in (for
\* BinomialModel(m, alpha, beta): alpha_posterior = alpha, beta_posterior =
\* beta, m stored; for NormalInverseGammaModel: each posterior equals its
\* prior); the stored priors are not changed by any later update.
C7_ConstructionKeepsPriors ==
    /\ (last.op = "BinomialModel" /\ last.args[2] > 0 /\ last.args[3] > 0) =>
         /\ last.kind = "value"
         /\ binom.constructed
         /\ binom.m = last.args[1]
         /\ <<binom.alpha, binom.beta>> = <<last.args[2], last.args[3]>>
         /\ PosteriorAB(binom) = <<last.args[2], last.args[3]>>
    /\ (last.op = "NormalInverseGammaModel"
            /\ NIGValid(last.args[2], last.args[3], last.args[4])) =>
         /\ last.kind = "value"
         /\ PriorsKept(IF last.variant = "A" THEN modelA ELSE modelB, last.args)
    /\ (binom.constructed /\ last.op = "update") =>
         <<binom.alpha, binom.beta>> = start

\* C8: every public operation of NormalInverseGammaABTest either returns a
\* value (a (low, high) pair for the two *_ci operations) or fails with an
\* error; none returns normally with no result.
C8_ReturnsValueOrFails ==
    last.op \in ComparatorOps =>
        /\ last.kind \in {"value", "error"}
        /\ (last.kind = "value"
              /\ last.op \in {"expected_loss_ci", "expected_loss_relative_ci"})
             => Len(last.val) = 2

\* C9: a call of probability or expected_loss, whatever its method, variant
\* and lift and whether it returns or fails, leaves the prior and posterior
\* hyperparameters of modelA and modelB as they were.
C9_ModelsUnchanged ==
    [][last'.op \in {"probability", "expected_loss"} =>
         (modelA' = modelA /\ modelB' = modelB)]_vars

\* C9 witness: a simulation call with a positive lift returned on two
\* constructed models.
C9_Witness ==
    /\ last.op = "probability"
    /\ last.method = "MC"
    /\ last.lift > 0
    /\ last.kind = "value"
    /\ modelA.constructed /\ modelB.constructed

\* The output of the last call, had it been made with the global generator in
\* state g: the state of the global generator is all that calls made in
\* between can change of what a call reads.
Replay(g) ==
    IF last.op = "probability"
    THEN ProbabilityCall(modelA, modelB, abtest, last.method, last.variant,
                         last.lift, g).call.val
    ELSE ExpectedLossCall(modelA, modelB, abtest, last.method, last.variant,
                          last.lift, g).call.val

\* C10: reproducibility.  With random_state set, a simulation call of
\* probability or expected_loss returns the same output as the same call (same
\* seed, simulation count, arguments and posterior states) made in any other
\* state of the global generator, that is, whatever calls came in between.
C10_Reproducible ==
    (last.op \in {"probability", "expected_loss"} /\ last.method = "MC"
        /\ abtest.random_state # NoSeed) =>
        \A g \in 0..(RngMod - 1) : Replay(g) = last.val

\* C10 witness: a simulation call of a test built with a seed and at least
\* two simulations returned, after both models' rvs were called.
C10_Witness ==
    /\ last.op = "expected_loss"
    /\ last.method = "MC"
    /\ last.kind = "value"
    /\ abtest.random_state # NoSeed
    /\ abtest.simulations >= 2
    /\ last.nrvs = 2

\* ------------------------------------------------------- claims C11 to C13
Posterior(m) ==
    <<m.loc_posterior, m.variance_scale_posterior, m.shape_posterior,
      m.scale_posterior>>

\* The fraction a + b of two fractions over the same number of draws is about
\* 1 : fewer than half of the draws are left out of both.
AboutOne(a, b) == a[2] = b[2] /\ 2 * (a[1] + b[1]) > a[2]

\* probability(method = MC, variant = B, lift = 0) called next, in this state.
NextProbabilityB ==
    ProbabilityCall(modelA, modelB, abtest, "MC", "B", 0, gstate).call

\* C11: complement sanity, in the case the claim names: two models with
\* identical posterior hyperparameters, a seed, lift = 0, simulation mode.
\* probability(variant A) + probability(variant B) is about 1 in the location
\* and in the dispersion component, that is, ties between the A draw and the B
\* draw are negligible.
C11_Complement ==
    (last.op = "probability" /\ last.method = "MC" /\ last.variant = "A"
        /\ last.lift = 0 /\ last.kind = "value"
        /\ abtest.random_state # NoSeed
        /\ Posterior(modelA) = Posterior(modelB)) =>
        /\ NextProbabilityB.kind = "value"
        /\ AboutOne(last.val[1], NextProbabilityB.val[1])
        /\ AboutOne(last.val[2], NextProbabilityB.val[2])

\* probability(method = MC, variant = A, lift = l) called next, in this state.
NextProbabilityA(l) ==
    ProbabilityCall(modelA, modelB, abtest, "MC", "A", l, gstate).call

\* The last call was probability(method = MC, variant = A) of a seeded test.
SeededProbabilityA ==
    /\ last.op = "probability" /\ last.method = "MC" /\ last.variant = "A"
    /\ last.kind = "value"
    /\ abtest.random_state # NoSeed

\* C12 as claimed: for fixed model states, seed and simulation count and lifts
\* 0 <= l1 < l2, probability(MC, A, l2) is strictly smaller than
\* probability(MC, A, l1) in each component.
C12_StrictlyDecreasing ==
    SeededProbabilityA =>
        \A l2 \in Lifts : l2 > last.lift =>
            \A c \in 1..2 : NextProbabilityA(l2).val[c][1] < last.val[c][1]

\* C12 as amended: for fixed model states, an integer seed and a simulation
\* count, and lifts 0 <= l1 < l2, probability(MC, A, l2) is smaller than or
\* equal to probability(MC, A, l1) in each component.
C12_NonIncreasing ==
    SeededProbabilityA =>
        \A l2 \in Lifts : l2 > last.lift =>
            \A c \in 1..2 :
                /\ NextProbabilityA(l2).val[c][2] = last.val[c][2]
                /\ NextProbabilityA(l2).val[c][1] <= last.val[c][1]

\* C12 witness: a seeded probability(MC, A) call at lift 0 whose location
\* component drops at the next lift while its dispersion component stays.
C12_Witness ==
    /\ SeededProbabilityA
    /\ last.lift = 0
    /\ \E l2 \in Lifts :
         /\ l2 > 0
         /\ NextProbabilityA(l2).val[1][1] < last.val[1][1]
         /\ NextProbabilityA(l2).val[2][1] = last.val[2][1]

\* C13: undefined moments are returned as a sentinel, never raised.  For every
\* valid NormalInverseGamma, mean(), var() and std() return; the dispersion
\* mean and the location variance are nan exactly when shape <= 1, the
\* dispersion variance is nan exactly when shape <= 2 (the location mean never
\* is), and std() is nan in exactly the components where var() is.
C13_SentinelNotRaised ==
    (last.op \in {"mean", "var", "std"}
        /\ last.args[2] > 0 /\ last.args[3] > 0 /\ last.args[4] > 0) =>
        /\ last.kind = "value"
        /\ Len(last.val) = 2
        /\ last.op = "mean" =>
             /\ ~last.val[1].nan
             /\ last.val[2].nan <=> (last.args[3] <= 1)
        /\ last.op = "var" =>
             /\ last.val[1].nan <=> (last.args[3] <= 1)
             /\ last.val[2].nan <=> (last.args[3] <= 2)
        /\ last.op = "std" =>
             \A c \in 1..2 :
                 last.val[c].nan <=>
                     DistVar(NormalInverseGamma(last.args[1], last.args[2],
                                                last.args[3], last.args[4]))[c].nan

\* C13 witness: std() of a valid distribution with shape 2 returned a defined
\* location component and a nan dispersion component.
C13_Witness ==
    /\ last.op = "std"
    /\ last.args[3] = 2
    /\ last.kind = "value"
    /\ ~last.val[1].nan
    /\ last.val[2].nan

====
